---- MODULE Spec2Model ----
(***************************************************************************)
(* Model of news_fetcher.py: the keyed adapter fetch_news_newsapi, the     *)
(* feed adapter _fallback_to_rss and the keyless adapter fetch_news_gnews  *)
(* with its fallback chain, field normalisation and post-fetch pause.      *)
(* One behaviour is one call made by main(); upstream services answer      *)
(* nondeterministically.                                                   *)
(***************************************************************************)
EXTENDS Integers, Sequences, FiniteSets, TLC

\* ---------------------------------------------------------------- bounds
MaxFeed == 2        \* most entries a parsed feed carries
MaxLib == 1         \* most records the aggregation library returns
MaxArticles == 1    \* most articles in a keyed-backend response
MaxRes == 2         \* largest max_results argument tried

\* ------------------------------------------------------- Python values
Null == "None"              \* Python None
Empty == ""                 \* the empty string
Absent == "<absent>"        \* marks a key left out when building inputs
EmptyRec == [k \in {} |-> Empty]   \* the empty dict {}

\* Python truthiness of a string-or-None value
Truthy(v) == v \notin {Null, Empty}

\* Python `x or y`
PyOr(x, y) == IF Truthy(x) THEN x ELSE y

\* dict.get(k, d) / getattr(e, k, d)
Get(a, k, d) == IF k \in DOMAIN a THEN a[k] ELSE d

\* one optional key of an input dict
Field(k, v) == IF v = Absent THEN EmptyRec ELSE (k :> v)

Min2(a, b) == IF a <= b THEN a ELSE b
Max2(a, b) == IF a >= b THEN a ELSE b

\* datetime.now(timezone.utc).isoformat() yields one of these instants
Times == {"t1", "t2"}
TimeRank(t) == IF t = "t1" THEN 1 ELSE 2

\* the stamps taken by one list comprehension over n records: the clock
\* never runs backwards
StampSeqs(n) ==
    {ts \in [1..n -> Times] :
        \A i \in 1..n : \A j \in 1..n : i <= j => TimeRank(ts[i]) <= TimeRank(ts[j])}

\* ------------------------------------------------- upstream: the feed
FeedBase == [title |-> "T1", link |-> "L1", summary |-> "Sum",
             published |-> "Pub", source |-> [title |-> "Src"]]

FeedEntries ==
    { FeedBase,
      [title |-> "T2", link |-> "L2", summary |-> "Sum", published |-> "Pub",
       source |-> [title |-> "Src"]],
      [FeedBase EXCEPT !.source = [title |-> Empty]],
      [FeedBase EXCEPT !.source = EmptyRec],
      [title |-> "T1", link |-> "L1", summary |-> "Sum", published |-> "Pub"],
      [title |-> "T1", link |-> "L1", source |-> [title |-> "Src"]],
      [FeedBase EXCEPT !.published = Empty],
      [link |-> "L1", summary |-> "Sum", published |-> "Pub",
       source |-> [title |-> "Src"]],
      [title |-> "T1", summary |-> "Sum", published |-> "Pub",
       source |-> [title |-> "Src"]] }

Feeds == UNION {[1..n -> FeedEntries] : n \in 0..MaxFeed}

\* ------------------------------------- upstream: the aggregation library
LibRec(src, pub, pa, pd, p, f, t, u) ==
    Field("source", src) @@ Field("publisher", pub) @@ Field("published_at", pa)
    @@ Field("published date", pd) @@ Field("published", p)
    @@ Field("fetched_at", f) @@ Field("title", t) @@ Field("url", u)
    @@ ("description" :> "D")

LibRecords ==
    \* variation of source / publisher
    { LibRec(s, p, Absent, "B", Absent, Absent, "T", "U") :
        s \in {Absent, Null, Empty, "S"}, p \in {Absent, "P"} }
    \cup
    \* variation of the three publication-date synonyms
    { LibRec(Absent, "P", pa, pd, p, Absent, "T", "U") :
        pa \in {Absent, Empty, "A"}, pd \in {Absent, Empty, "B"}, p \in {Absent, "C"} }
    \cup
    \* variation of an upstream fetched_at
    { LibRec(Absent, "P", Absent, "B", Absent, f, "T", "U") :
        f \in {Null, Empty, "T0"} }
    \cup
    \* variation of the required fields
    { LibRec(Absent, "P", Absent, "B", Absent, Absent, t, u) :
        t \in {Absent, Null, "T"}, u \in {Absent, Null, "U"} }

LibLists == UNION {[1..n -> LibRecords] : n \in 1..MaxLib}

\* what gn.get_news(query) does: raise, return None, or return a list
LibResponses ==
    {[kind |-> "raise", items |-> <<>>], [kind |-> "none", items |-> <<>>]}
    \cup {[kind |-> "list", items |-> l] : l \in {<<>>} \cup LibLists}

\* --------------------------------------- upstream: the keyed backend
ApiBase == [source |-> [name |-> "N"], title |-> "T", description |-> "D",
            url |-> "U", urlToImage |-> Null, publishedAt |-> "PA"]

ApiArticles ==
    { ApiBase,
      [ApiBase EXCEPT !.title = Null],
      [ApiBase EXCEPT !.url = Null],
      [source |-> [name |-> "N"], description |-> "D", url |-> "U",
       urlToImage |-> Null, publishedAt |-> "PA"],
      [source |-> [name |-> "N"], title |-> "T", description |-> "D",
       urlToImage |-> Null, publishedAt |-> "PA"],
      [ApiBase EXCEPT !.source = [name |-> Null]] }

ApiLists == UNION {[1..n -> ApiArticles] : n \in 0..MaxArticles}

\* ------------------------------------------------------------ arguments
ExplicitKeys == {Null, Empty, "K"}     \* api_key argument (--newsapi-key)
EnvKeys == {Null, Empty, "E"}          \* os.getenv("NEWSAPI_KEY")
SleepArgs == {-1, 0, 1}                \* sleep_sec (--sleep, a float)
MaxResultsArgs == (-1)..MaxRes         \* max_results (--max, an int)

\* ------------------------------------------------- fetch_news_newsapi
\* api_key = api_key or os.getenv("NEWSAPI_KEY")
ResolveKeyEnvIgnored(k, e) == k
ResolveKey(k, e) == PyOr(k, e)

\* the dict built for one article; a[...] raises on a missing key
ApiMappable(a) ==
    {"source", "title", "description", "url", "urlToImage", "publishedAt"}
        \subseteq DOMAIN a

ApiRecord(a, t) ==
    [source |-> a["source"]["name"], title |-> a["title"],
     description |-> a["description"], url |-> a["url"],
     image |-> a["urlToImage"], published_at |-> a["publishedAt"],
     fetched_at |-> t]

\* --------------------------------------------------- _fallback_to_rss
\* len(entries[:m]) for a list of n entries
PySliceStop(n, m) == IF m >= 0 THEN Min2(m, n) ELSE Max2(0, n + m)

\* feed.entries[:max_results]
SliceToUncapped(s, m) == s
SliceTo(s, m) == SubSeq(s, 1, PySliceStop(Len(s), m))

\* e.title and e.link raise AttributeError when the entry lacks them
RssMappable(e) == "title" \in DOMAIN e /\ "link" \in DOMAIN e

RssRecord(e, t) ==
    [source |-> Get(Get(e, "source", EmptyRec), "title", Empty),
     title |-> e["title"],
     description |-> Get(e, "summary", Empty),
     url |-> e["link"],
     image |-> Null,
     published_at |-> Get(e, "published", Null),
     fetched_at |-> t]

\* ---------------------------------------------------- fetch_news_gnews
\* raw = gn.get_news(query) or []
PrimaryRaw(resp) == IF resp.kind = "list" THEN resp.items ELSE <<>>

\* if force_fallback or not raw
NeedFallbackAlways(force, r) == TRUE
NeedFallback(force, r) == force \/ r = <<>>

\* a.get("source") or a.get("publisher")
ResolveSource(a) == PyOr(Get(a, "source", Null), Get(a, "publisher", Null))

\* a.get("published_at") or a.get("published date") or a.get("published")
ResolvePublishedAt(a) ==
    PyOr(PyOr(Get(a, "published_at", Null), Get(a, "published date", Null)),
         Get(a, "published", Null))

\* a.get("fetched_at") or datetime.now(timezone.utc).isoformat()
ResolveFetchedAtRestamp(a, t) == t
ResolveFetchedAt(a, t) == PyOr(Get(a, "fetched_at", Null), t)

\* a["title"] and a["url"] raise KeyError when the key is missing
Normalisable(a) == "title" \in DOMAIN a /\ "url" \in DOMAIN a

NormRecord(a, t) ==
    [source |-> ResolveSource(a),
     title |-> a["title"],
     description |-> Get(a, "description", Empty),
     url |-> a["url"],
     image |-> Get(a, "image", Null),
     published_at |-> ResolvePublishedAt(a),
     fetched_at |-> ResolveFetchedAt(a, t)]

\* if sleep_sec:
ShouldSleepAlways(s) == TRUE
ShouldSleep(s) == s # 0

\* ----------------------------------------------------------------- state
VARIABLES
    engine,          \* args.engine: "gnews" or "newsapi"
    pc,              \* position of the call
    api_key,         \* explicit api_key argument
    env_key,         \* NEWSAPI_KEY in the environment
    force_fallback,  \* force_fallback argument
    sleep_sec,       \* sleep_sec argument
    max_results,     \* max_results argument
    ctorRaises,      \* whether GNews(...) raises
    libResp,         \* what gn.get_news(query) does when called
    primary,         \* outcome of the primary attempt
    feed,            \* feed.entries as parsed by the fallback
    feedStatus,      \* "unset", "ok" (parsed) or "raised"
    rssOut,          \* list returned by _fallback_to_rss
    articles,        \* resp.json().get("articles", [])
    raw,             \* raw
    normalised,      \* normalised
    normDone,        \* the normalisation loop has completed
    result,          \* the list returned to the caller
    err,             \* exception that ended the call, or "none"
    errAt,           \* step that raised it
    netlog,          \* network operations started, in order
    inflight,        \* network operations not yet completed
    paused,          \* number of completed time.sleep calls
    warned           \* number of logging.warning calls

vars == <<engine, pc, api_key, env_key, force_fallback, sleep_sec, max_results,
          ctorRaises, libResp, primary, feed, feedStatus, rssOut, articles, raw,
          normalised, normDone, result, err, errAt, netlog, inflight, paused,
          warned>>

args == <<engine, api_key, env_key, force_fallback, sleep_sec, max_results,
          ctorRaises, libResp>>

Init ==
    /\ pc = "start"
    /\ primary = "none"
    /\ feed = <<>>
    /\ feedStatus = "unset"
    /\ rssOut = <<>>
    /\ articles = <<>>
    /\ raw = <<>>
    /\ normalised = <<>>
    /\ normDone = FALSE
    /\ result = <<>>
    /\ err = "none"
    /\ errAt = "none"
    /\ netlog = <<>>
    /\ inflight = {}
    /\ paused = 0
    /\ warned = 0
    /\ \/ /\ engine = "gnews"
          /\ api_key = Null
          /\ env_key = Null
          /\ force_fallback \in BOOLEAN
          /\ sleep_sec \in SleepArgs
          /\ max_results \in MaxResultsArgs
          /\ ctorRaises \in BOOLEAN
          /\ libResp \in LibResponses
       \/ /\ engine = "newsapi"
          /\ api_key \in ExplicitKeys
          /\ env_key \in EnvKeys
          /\ force_fallback = FALSE
          /\ sleep_sec = 0
          /\ max_results \in MaxResultsArgs
          /\ ctorRaises = FALSE
          /\ libResp = [kind |-> "list", items |-> <<>>]

\* the call ends with an exception
Raise(e, at) ==
    /\ err' = e
    /\ errAt' = at
    /\ pc' = "done"

NoRaise == UNCHANGED <<err, errAt>>

\* ------------------------------------------ actions: fetch_news_newsapi
\* lines 29-31: resolve the key or raise ValueError
NewsApiResolveKey ==
    /\ engine = "newsapi" /\ pc = "start"
    /\ IF Truthy(ResolveKey(api_key, env_key))
         THEN pc' = "request" /\ NoRaise
         ELSE Raise("ValueError", "key")
    /\ UNCHANGED <<args, primary, feed, feedStatus, rssOut, articles, raw,
                   normalised, normDone, result, netlog, inflight, paused, warned>>

\* line 42: requests.get is issued
NewsApiRequest ==
    /\ engine = "newsapi" /\ pc = "request"
    /\ netlog' = Append(netlog, "newsapi")
    /\ inflight' = inflight \cup {"newsapi"}
    /\ pc' = "request_wait"
    /\ UNCHANGED <<args, primary, feed, feedStatus, rssOut, articles, raw,
                   normalised, normDone, result, err, errAt, paused, warned>>

\* lines 42-44: the request fails, or the response has a failure status
\* (raise_for_status), or it carries an article list
NewsApiResponse ==
    /\ engine = "newsapi" /\ pc = "request_wait"
    /\ inflight' = inflight \ {"newsapi"}
    /\ \/ /\ Raise("HTTPError", "request")
          /\ UNCHANGED articles
       \/ /\ \E as \in ApiLists : articles' = as
          /\ pc' = "map"
          /\ NoRaise
    /\ UNCHANGED <<args, primary, feed, feedStatus, rssOut, raw, normalised,
                   normDone, result, netlog, paused, warned>>

\* lines 46-57: map the articles and return
NewsApiMap ==
    /\ engine = "newsapi" /\ pc = "map"
    /\ IF \E i \in 1..Len(articles) : ~ApiMappable(articles[i])
         THEN Raise("KeyError", "map") /\ UNCHANGED result
         ELSE /\ \E ts \in StampSeqs(Len(articles)) :
                    result' = [i \in 1..Len(articles) |-> ApiRecord(articles[i], ts[i])]
              /\ pc' = "done"
              /\ NoRaise
    /\ UNCHANGED <<args, primary, feed, feedStatus, rssOut, articles, raw,
                   normalised, normDone, netlog, inflight, paused, warned>>

\* -------------------------------------------- actions: fetch_news_gnews
\* lines 109-116: gn = GNews(...), outside any try block
GnewsConstruct ==
    /\ engine = "gnews" /\ pc = "start"
    /\ IF ctorRaises
         THEN Raise("LibraryError", "ctor")
         ELSE pc' = "primary" /\ NoRaise
    /\ UNCHANGED <<args, primary, feed, feedStatus, rssOut, articles, raw,
                   normalised, normDone, result, netlog, inflight, paused, warned>>

\* line 117 with force_fallback true: the primary attempt is skipped
GnewsSkipPrimary ==
    /\ engine = "gnews" /\ pc = "primary" /\ force_fallback
    /\ pc' = "decide"
    /\ UNCHANGED <<args, primary, feed, feedStatus, rssOut, articles, raw,
                   normalised, normDone, result, err, errAt, netlog, inflight,
                   paused, warned>>

\* lines 117-119: gn.get_news(query) is called
GnewsPrimaryCall ==
    /\ engine = "gnews" /\ pc = "primary" /\ ~force_fallback
    /\ netlog' = Append(netlog, "gnews")
    /\ inflight' = inflight \cup {"gnews"}
    /\ pc' = "primary_wait"
    /\ UNCHANGED <<args, primary, feed, feedStatus, rssOut, articles, raw,
                   normalised, normDone, result, err, errAt, paused, warned>>

\* lines 119-121: the call returns or raises; an exception is logged and
\* leaves raw empty
GnewsPrimaryReturn ==
    /\ engine = "gnews" /\ pc = "primary_wait"
    /\ inflight' = inflight \ {"gnews"}
    /\ raw' = PrimaryRaw(libResp)
    /\ primary' = IF libResp.kind = "raise" THEN "raised"
                  ELSE IF PrimaryRaw(libResp) = <<>> THEN "empty" ELSE "nonempty"
    /\ warned' = IF libResp.kind = "raise" THEN warned + 1 ELSE warned
    /\ pc' = "decide"
    /\ UNCHANGED <<args, feed, feedStatus, rssOut, articles, normalised, normDone,
                   result, err, errAt, netlog, paused>>

\* line 124, condition false: raw is kept
GnewsNoFallback ==
    /\ engine = "gnews" /\ pc = "decide"
    /\ ~NeedFallback(force_fallback, raw)
    /\ pc' = "normalise"
    /\ UNCHANGED <<args, primary, feed, feedStatus, rssOut, articles, raw,
                   normalised, normDone, result, err, errAt, netlog, inflight,
                   paused, warned>>

\* lines 124-125 and 70-81: _fallback_to_rss is entered, the feed is requested
GnewsFallbackCall ==
    /\ engine = "gnews" /\ pc = "decide"
    /\ NeedFallback(force_fallback, raw)
    /\ netlog' = Append(netlog, "rss")
    /\ inflight' = inflight \cup {"rss"}
    /\ pc' = "rss_wait"
    /\ UNCHANGED <<args, primary, feed, feedStatus, rssOut, articles, raw,
                   normalised, normDone, result, err, errAt, paused, warned>>

\* line 81: feedparser.parse raises a lower-level error
GnewsFallbackFails ==
    /\ engine = "gnews" /\ pc = "rss_wait"
    /\ inflight' = inflight \ {"rss"}
    /\ feedStatus' = "raised"
    /\ Raise("NetworkError", "rss")
    /\ UNCHANGED <<args, primary, feed, rssOut, articles, raw, normalised,
                   normDone, result, netlog, paused, warned>>

\* lines 81-93 and 125: the feed is parsed, its entries sliced and mapped,
\* and the list becomes raw
GnewsFallbackReturn ==
    /\ engine = "gnews" /\ pc = "rss_wait"
    /\ inflight' = inflight \ {"rss"}
    /\ feedStatus' = "ok"
    /\ \E f \in Feeds :
         /\ feed' = f
         /\ LET es == SliceTo(f, max_results) IN
            IF \E i \in 1..Len(es) : ~RssMappable(es[i])
              THEN Raise("AttributeError", "rss") /\ UNCHANGED <<rssOut, raw>>
              ELSE /\ \E ts \in StampSeqs(Len(es)) :
                         rssOut' = [i \in 1..Len(es) |-> RssRecord(es[i], ts[i])]
                   /\ raw' = rssOut'
                   /\ pc' = "normalise"
                   /\ NoRaise
    /\ UNCHANGED <<args, primary, articles, normalised, normDone, result, netlog,
                   paused, warned>>

\* lines 128-142: the normalisation loop
GnewsNormalise ==
    /\ engine = "gnews" /\ pc = "normalise"
    /\ IF \E i \in 1..Len(raw) : ~Normalisable(raw[i])
         THEN Raise("KeyError", "normalise") /\ UNCHANGED <<normalised, normDone>>
         ELSE /\ \E ts \in StampSeqs(Len(raw)) :
                    normalised' = [i \in 1..Len(raw) |-> NormRecord(raw[i], ts[i])]
              /\ normDone' = TRUE
              /\ pc' = "sleep"
              /\ NoRaise
    /\ UNCHANGED <<args, primary, feed, feedStatus, rssOut, articles, raw, result,
                   netlog, inflight, paused, warned>>

\* lines 144-145: time.sleep(sleep_sec); a negative length raises ValueError
GnewsSleep ==
    /\ engine = "gnews" /\ pc = "sleep"
    /\ IF ShouldSleep(sleep_sec)
         THEN IF sleep_sec < 0
                THEN Raise("ValueError", "sleep") /\ UNCHANGED paused
                ELSE paused' = paused + 1 /\ pc' = "return" /\ NoRaise
         ELSE pc' = "return" /\ NoRaise /\ UNCHANGED paused
    /\ UNCHANGED <<args, primary, feed, feedStatus, rssOut, articles, raw,
                   normalised, normDone, result, netlog, inflight, warned>>

\* line 147: return normalised
GnewsReturn ==
    /\ engine = "gnews" /\ pc = "return"
    /\ result' = normalised
    /\ pc' = "done"
    /\ UNCHANGED <<args, primary, feed, feedStatus, rssOut, articles, raw,
                   normalised, normDone, err, errAt, netlog, inflight, paused,
                   warned>>

Next ==
    \/ NewsApiResolveKey
    \/ NewsApiRequest
    \/ NewsApiResponse
    \/ NewsApiMap
    \/ GnewsConstruct
    \/ GnewsSkipPrimary
    \/ GnewsPrimaryCall
    \/ GnewsPrimaryReturn
    \/ GnewsNoFallback
    \/ GnewsFallbackCall
    \/ GnewsFallbackFails
    \/ GnewsFallbackReturn
    \/ GnewsNormalise
    \/ GnewsSleep
    \/ GnewsReturn

Spec == Init /\ [][Next]_vars

\* ------------------------------------------------------------ properties
Gnews == engine = "gnews"
NewsApi == engine = "newsapi"

\* the call returned a list to its caller
Returned == pc = "done" /\ err = "none"

\* the call ended with an exception
Failed == pc = "done" /\ err # "none"

\* _fallback_to_rss returned a list
RssReturned == Gnews /\ feedStatus = "ok" /\ ~(err # "none" /\ errAt = "rss")

\* the primary attempt was made and came back empty or raised
PrimaryDegraded == primary \in {"empty", "raised"}

Occurrences(log, op) == Cardinality({i \in 1..Len(log) : log[i] = op})

\* C1: with force_fallback false, when the library call returned nothing or
\* raised, the returned list equals the list _fallback_to_rss returned,
\* field for field (a source of "" included).
C1_FallbackResultEqualsRssOutput ==
    (Gnews /\ ~force_fallback /\ PrimaryDegraded /\ Returned) => result = rssOut

\* C2: with force_fallback true get_news is never called, the feed fallback
\* is invoked, and the returned list is the feed fallback's output.
C2_ForceUsesRssOutput ==
    (Gnews /\ force_fallback) =>
        /\ Occurrences(netlog, "gnews") = 0
        /\ primary = "none"
        /\ (Returned => (Occurrences(netlog, "rss") = 1 /\ result = rssOut))

\* the value of the first of the keys ks whose value is non-null, else null
RECURSIVE FirstNonNull(_, _)
FirstNonNull(a, ks) ==
    IF ks = <<>> THEN Null
    ELSE IF Get(a, Head(ks), Null) # Null THEN a[Head(ks)]
    ELSE FirstNonNull(a, Tail(ks))

\* C3: after normalisation, published_at is the first non-null of
\* published_at, published date, published, and source the first non-null of
\* source, publisher; an empty string of an earlier key wins.
C3_FirstNonNullWins ==
    (Gnews /\ normDone) =>
        \A i \in 1..Len(raw) :
            /\ normalised[i].published_at =
                 FirstNonNull(raw[i], <<"published_at", "published date", "published">>)
            /\ normalised[i].source = FirstNonNull(raw[i], <<"source", "publisher">>)

\* C4 as stated: every raw record carrying a fetched_at value keeps it.
C4_AnyFetchedAtKept ==
    (Gnews /\ normDone) =>
        \A i \in 1..Len(raw) :
            Get(raw[i], "fetched_at", Null) # Null =>
                normalised[i].fetched_at = raw[i]["fetched_at"]

\* C4 amended: every raw record carrying a non-empty fetched_at keeps it,
\* whether the library or _fallback_to_rss stamped it; a record whose
\* fetched_at is missing, null or empty is stamped with the current time.
C4_NonEmptyFetchedAtKept ==
    (Gnews /\ normDone) =>
        /\ Len(normalised) = Len(raw)
        /\ \A i \in 1..Len(raw) :
             IF Truthy(Get(raw[i], "fetched_at", Null))
               THEN normalised[i].fetched_at = raw[i]["fetched_at"]
               ELSE normalised[i].fetched_at \in Times

\* a library record stamped "T0" upstream was normalised at another instant
C4_Witness ==
    /\ Gnews /\ normDone /\ primary = "nonempty"
    /\ Len(raw) >= 1
    /\ Get(raw[1], "fetched_at", Null) = "T0"
    /\ normalised[1].fetched_at = "T0"

\* C5: without an explicit key and without NEWSAPI_KEY the keyed adapter
\* fails with its configuration error (ValueError, line 31) before any
\* request; with a key from either source there is no such error and exactly
\* one request is issued.
C5_MissingKeyFailsBeforeRequest ==
    NewsApi =>
        IF ~Truthy(api_key) /\ ~Truthy(env_key)
          THEN /\ netlog = <<>>
               /\ pc \in {"start", "done"}
               /\ pc = "done" => (err = "ValueError" /\ errAt = "key")
          ELSE /\ err # "ValueError"
               /\ Len(netlog) <= 1
               /\ pc = "done" => netlog = <<"newsapi">>

\* the key came from the environment only and the request went out
C5_Witness ==
    /\ NewsApi /\ pc = "done"
    /\ ~Truthy(api_key) /\ env_key = "E"
    /\ netlog = <<"newsapi">>

\* C6: every record of a list returned by an adapter has a non-null title
\* and a non-null url.
C6_TitleAndUrlNeverNull ==
    /\ Returned =>
         \A i \in 1..Len(result) : result[i].title # Null /\ result[i].url # Null
    /\ RssReturned =>
         \A i \in 1..Len(rssOut) : rssOut[i].title # Null /\ rssOut[i].url # Null

\* C7: fetch_news_gnews fails only if the feed-fallback call raised.
C7_OnlyFallbackErrorsSurface ==
    (Gnews /\ Failed) => errAt = "rss"

\* C8 as stated: the fallback returns at most max_results records, a prefix
\* of the feed, for every integer max_results.
C8_AtMostMaxResults ==
    RssReturned =>
        /\ Len(rssOut) <= max_results
        /\ Len(rssOut) <= Len(feed)
        /\ \A i \in 1..Len(rssOut) :
             rssOut[i].title = feed[i]["title"] /\ rssOut[i].url = feed[i]["link"]

\* C8 amended: whenever _fallback_to_rss returns, its list is the mapping of
\* a prefix of the feed's entries in feed order; for max_results >= 0 the
\* prefix has min(max_results, len) entries, for max_results < 0 it has
\* max(0, len + max_results) entries; an empty feed yields an empty list.
C8_PrefixOfFeed ==
    RssReturned =>
        /\ Len(rssOut) <= Len(feed)
        /\ max_results >= 0 => Len(rssOut) = Min2(max_results, Len(feed))
        /\ max_results < 0 => Len(rssOut) = Max2(0, Len(feed) + max_results)
        /\ \A i \in 1..Len(rssOut) :
             rssOut[i].title = feed[i]["title"] /\ rssOut[i].url = feed[i]["link"]
        /\ feed = <<>> => rssOut = <<>>

\* a feed of two different entries was cut to its first entry
C8_Witness ==
    /\ RssReturned
    /\ Len(feed) = 2
    /\ Get(feed[1], "title", Absent) = "T1" /\ Get(feed[2], "title", Absent) = "T2"
    /\ max_results = 1
    /\ Len(rssOut) = 1 /\ rssOut[1].title = "T1"

\* C9: at most two network operations per call, never two at once; the
\* fallback is called at most once, after the primary call completed, and
\* only if force_fallback is set or the primary attempt came back empty or
\* raised; the keyed adapter issues at most one request.
C9_SequentialNetworkOps ==
    /\ Len(netlog) <= 2
    /\ Cardinality(inflight) <= 1
    /\ Gnews =>
         /\ Occurrences(netlog, "gnews") <= 1
         /\ Occurrences(netlog, "rss") <= 1
         /\ Occurrences(netlog, "newsapi") = 0
         /\ Occurrences(netlog, "rss") = 1 =>
              /\ "gnews" \notin inflight
              /\ force_fallback \/ PrimaryDegraded
              /\ netlog[Len(netlog)] = "rss"
         /\ (~force_fallback /\ primary = "nonempty") => Occurrences(netlog, "rss") = 0
    /\ NewsApi =>
         /\ Len(netlog) <= 1
         /\ Occurrences(netlog, "newsapi") = Len(netlog)
         /\ err = "HTTPError" => (pc = "done" /\ inflight = {})

\* the primary call came back empty and the fallback followed it
C9_Witness ==
    /\ Gnews /\ Returned
    /\ netlog = <<"gnews", "rss">>
    /\ primary = "empty"

\* C10 as stated: the pause happens if and only if a non-zero delay was
\* requested.
C10_PauseIffDelayRequested ==
    (Gnews /\ pc = "done") => (paused = 1 <=> sleep_sec # 0)

\* C10 amended: in every call that returns a list the pause happened exactly
\* once if the delay was non-zero and not at all if it was zero; a pause
\* happens at most once, only for a positive delay, only after fetching and
\* normalisation completed; it leaves the normalised list unchanged and the
\* returned list is that list; a call that fails, also on a negative delay,
\* which time.sleep rejects, does not pause.
C10_PauseAfterNormalisation ==
    /\ [](Gnews =>
            /\ paused \in {0, 1}
            /\ sleep_sec = 0 => paused = 0
            /\ paused = 1 =>
                 (sleep_sec > 0 /\ normDone /\ inflight = {} /\ pc \in {"return", "done"})
            /\ Returned =>
                 (normDone /\ result = normalised /\ (paused = 1 <=> sleep_sec # 0))
            /\ Failed => paused = 0)
    /\ [][pc = "sleep" => normalised' = normalised]_vars

\* a call with a positive delay paused once and returned a non-empty list
C10_Witness ==
    /\ Gnews /\ Returned
    /\ sleep_sec = 1 /\ paused = 1
    /\ Len(result) >= 1

====
